---- MODULE Spec2Model ----
(***************************************************************************)
(* Model of analyze_coverage.py: the command line entry point, parse_lcov  *)
(* and print_report.  Text is modelled as sequences of one-character       *)
(* strings so that strip, startswith, split, int, isabs, relpath and       *)
(* sorted are computed, not assumed.                                       *)
(***************************************************************************)
EXTENDS Integers, Sequences, FiniteSets, TLC

VARIABLES argv, fs, pc, opened, lines_read, coverage, current_file,
          sorted_files, idx, total_lines, total_covered, out, err,
          exit_status

vars == <<argv, fs, pc, opened, lines_read, coverage, current_file,
          sorted_files, idx, total_lines, total_covered, out, err,
          exit_status>>

\* Largest number of lines the iteration over the file yields.
MaxLines == 4

(***************************************************************************)
(* Text helpers.                                                           *)
(***************************************************************************)
\* Python's None; differs from every text (texts hold one-character items).
None == <<"None">>

Drop(s, n) == SubSeq(s, n + 1, Len(s))

IsSpace(c) == c \in {" ", "\t", "\n"}

RECURSIVE LStrip(_)
LStrip(s) == IF s # <<>> /\ IsSpace(Head(s)) THEN LStrip(Tail(s)) ELSE s

RECURSIVE RStrip(_)
RStrip(s) ==
  IF s # <<>> /\ IsSpace(s[Len(s)]) THEN RStrip(SubSeq(s, 1, Len(s) - 1))
  ELSE s

\* str.strip()
Strip(s) == RStrip(LStrip(s))

\* str.startswith(p)
StartsWith(s, p) == Len(s) >= Len(p) /\ SubSeq(s, 1, Len(p)) = p

\* str.split(sep) for a one-character separator
RECURSIVE Split(_, _)
Split(s, sep) ==
  IF \A i \in 1..Len(s) : s[i] # sep THEN <<s>>
  ELSE LET i == CHOOSE j \in 1..Len(s) :
                   s[j] = sep /\ \A m \in 1..(j - 1) : s[m] # sep
       IN <<SubSeq(s, 1, i - 1)>> \o Split(Drop(s, i), sep)

\* sep.join(parts)
RECURSIVE Join(_, _)
Join(parts, sep) ==
  IF parts = <<>> THEN <<>>
  ELSE IF Len(parts) = 1 THEN parts[1]
  ELSE parts[1] \o <<sep>> \o Join(Tail(parts), sep)

Digits == {"0", "1", "2", "3", "4", "5", "6", "7", "8", "9"}

DigitVal(c) ==
  CASE c = "0" -> 0 [] c = "1" -> 1 [] c = "2" -> 2 [] c = "3" -> 3
    [] c = "4" -> 4 [] c = "5" -> 5 [] c = "6" -> 6 [] c = "7" -> 7
    [] c = "8" -> 8 [] c = "9" -> 9 [] OTHER -> 0

RECURSIVE DecVal(_)
DecVal(s) == IF s = <<>> THEN 0
             ELSE 10 * DecVal(SubSeq(s, 1, Len(s) - 1)) + DigitVal(s[Len(s)])

\* int(s) of Python: surrounding whitespace is dropped, one optional sign, then one or
\* more decimal digits; anything else raises ValueError (ok = FALSE).
PyInt(s) ==
  LET t    == Strip(s)
      sgn  == t # <<>> /\ Head(t) \in {"+", "-"}
      body == IF sgn THEN Tail(t) ELSE t
  IN IF body = <<>> \/ \E i \in 1..Len(body) : body[i] \notin Digits
     THEN [ok |-> FALSE, val |-> 0]
     ELSE [ok |-> TRUE,
           val |-> IF sgn /\ Head(t) = "-" THEN 0 - DecVal(body)
                   ELSE DecVal(body)]

\* Code points of the characters that occur in table keys.
Ord(c) ==
  CASE c = "." -> 46 [] c = "/" -> 47 [] c = "a" -> 97 [] c = "b" -> 98
    [] c = "w" -> 119 [] OTHER -> 0

\* str.__lt__: lexicographic by code point, a proper prefix sorts first.
RECURSIVE LexLess(_, _)
LexLess(s, t) ==
  IF t = <<>> THEN FALSE
  ELSE IF s = <<>> THEN TRUE
  ELSE IF Ord(Head(s)) # Ord(Head(t)) THEN Ord(Head(s)) < Ord(Head(t))
  ELSE LexLess(Tail(s), Tail(t))

(***************************************************************************)
(* os.path (posixpath).                                                    *)
(***************************************************************************)
\* The working directory of the process.
Cwd == <<"/", "w">>

\* os.path.isabs
IsAbs(p) == StartsWith(p, <<"/">>)

\* Components of normpath of an absolute path: empty and "." components are
\* dropped, ".." removes the component before it (and is dropped at the root).
RECURSIVE NormComps(_, _)
NormComps(comps, acc) ==
  IF comps = <<>> THEN acc
  ELSE LET c == Head(comps) IN
       IF c = <<>> \/ c = <<".">> THEN NormComps(Tail(comps), acc)
       ELSE IF c = <<".", ".">>
            THEN NormComps(Tail(comps),
                           IF acc = <<>> THEN acc
                           ELSE SubSeq(acc, 1, Len(acc) - 1))
       ELSE NormComps(Tail(comps), Append(acc, c))

AbsComps(p) == NormComps(Split(p, "/"), <<>>)

\* len(commonprefix([a, b]))
RECURSIVE CommonLen(_, _)
CommonLen(a, b) ==
  IF a # <<>> /\ b # <<>> /\ Head(a) = Head(b)
  THEN 1 + CommonLen(Tail(a), Tail(b)) ELSE 0

\* os.path.relpath(path) of an absolute path; ok = FALSE is ValueError.
Relpath(path) ==
  IF path = <<>> THEN [ok |-> FALSE, val |-> <<>>]
  ELSE LET start_list == AbsComps(Cwd)
           path_list  == AbsComps(path)
           i          == CommonLen(start_list, path_list)
           rel_list   == [j \in 1..(Len(start_list) - i) |-> <<".", ".">>]
                           \o Drop(path_list, i)
       IN [ok |-> TRUE,
           val |-> IF rel_list = <<>> THEN <<".">> ELSE Join(rel_list, "/")]

(***************************************************************************)
(* parse_lcov, per line.                                                   *)
(***************************************************************************)
SFMarker == <<"S", "F", ":">>
DAMarker == <<"D", "A", ":">>

\* Lines 14-20: the path after the marker, made relative when absolute.
SourcePath(line) ==
  LET p == Drop(line, 3) IN
  IF IsAbs(p) THEN (IF Relpath(p).ok THEN Relpath(p).val ELSE p) ELSE p

\* Variant of AddEntry: an entry is made only for a non-empty path.
AddEntry_SkipEmpty(cov, k) ==
  IF k \notin DOMAIN cov /\ k # <<>>
  THEN cov @@ (k :> [total |-> 0, covered |-> 0])
  ELSE cov

\* Variant of AddEntry: every SF: line starts the entry afresh.
AddEntry_Reset(cov, k) ==
  [x \in DOMAIN cov \cup {k} |->
     IF x = k THEN [total |-> 0, covered |-> 0] ELSE cov[x]]

\* Lines 21-22
AddEntry(cov, k) ==
  IF k \notin DOMAIN cov THEN cov @@ (k :> [total |-> 0, covered |-> 0])
  ELSE cov

\* Line 23: truth value of current_file
ContextActive(cf) == cf # None /\ cf # <<>>

\* Variant of CountLine: covered accumulates the execution count itself.
CountLine_SumHits(cov, cf, count) ==
  [cov EXCEPT ![cf] = [total   |-> @.total + 1,
                       covered |-> @.covered + count]]

\* Lines 27-29
CountLine(cov, cf, count) ==
  [cov EXCEPT ![cf] = [total   |-> @.total + 1,
                       covered |-> IF count > 0 THEN @.covered + 1
                                   ELSE @.covered]]

(***************************************************************************)
(* print_report helpers.                                                   *)
(***************************************************************************)
\* Variant of Sorted: descending order.
RECURSIVE Sorted_Reverse(_)
Sorted_Reverse(S) ==
  IF S = {} THEN <<>>
  ELSE LET m == CHOOSE x \in S : \A y \in S \ {x} : LexLess(y, x)
       IN <<m>> \o Sorted_Reverse(S \ {m})

\* sorted(keys): ascending by LexLess
RECURSIVE Sorted(_)
Sorted(S) ==
  IF S = {} THEN <<>>
  ELSE LET m == CHOOSE x \in S : \A y \in S \ {x} : LexLess(x, y)
       IN <<m>> \o Sorted(S \ {m})

\* a / b * 100 shown with two decimals, as hundredths of a percent; ok = FALSE
\* is ZeroDivisionError.  (Rounding ties need b to be a multiple of 64.)
TrueDivPercent(a, b) ==
  IF b = 0 THEN [ok |-> FALSE, val |-> 0]
  ELSE [ok |-> TRUE, val |-> (a * 20000 + b) \div (2 * b)]

\* Variant of Percent: the zero guard is missing.
Percent_NoGuard(covered, lines) == TrueDivPercent(covered, lines)

\* Lines 49 and 57
Percent(covered, lines) ==
  IF lines > 0 THEN TrueDivPercent(covered, lines)
  ELSE [ok |-> TRUE, val |-> 0]

\* One printed line of standard output.
OutLine(kind, file, lines, covered, percent) ==
  [kind |-> kind, file |-> file, lines |-> lines, covered |-> covered,
   percent |-> percent]

(***************************************************************************)
(* Inputs.                                                                 *)
(***************************************************************************)
Prog == <<"p">>
LcovPath == <<"c", ".", "i">>

\* Variant of MissingArg: the program name is counted as the argument.
MissingArg_OffByOne(av) == Len(av) < 1

\* Line 61
MissingArg(av) == Len(av) < 2

InputLines ==
  { <<"S", "F", ":", "a">>,
    <<"S", "F", ":", "b">>,
    <<"S", "F", ":", "/", "w", "/", "a">>,
    <<"S", "F", ":", "/", "b">>,
    <<"S", "F", ":">>,
    <<"D", "A", ":", "1", ",", "5", ",", "h">>,
    <<" ", "D", "A", ":", "2", ",", "0", "\n">>,
    <<"D", "A", ":", "3", ",", "-", "1">>,
    <<"D", "A", ":", "4">>,
    <<"D", "A", ":", "5", ",", "x">>,
    <<"e", "n", "d">> }

EmptyTable == [k \in {} |-> [total |-> 0, covered |-> 0]]

Init ==
  /\ argv \in {<<Prog>>, <<Prog, LcovPath>>}
  /\ fs \in {"ok", "missing", "denied"}
  /\ pc = "main"
  /\ opened = FALSE
  /\ lines_read = <<>>
  /\ coverage = EmptyTable
  /\ current_file = None
  /\ sorted_files = <<>>
  /\ idx = 1
  /\ total_lines = 0
  /\ total_covered = 0
  /\ out = <<>>
  /\ err = <<>>
  /\ exit_status = 0

\* An uncaught exception: traceback on standard error, exit status 1.
Crash(e) ==
  /\ pc' = "exit"
  /\ err' = Append(err, e)
  /\ exit_status' = 1

ParseVars == <<lines_read, coverage, current_file>>
ReportVars == <<sorted_files, idx, total_lines, total_covered>>

(***************************************************************************)
(* __main__                                                                *)
(***************************************************************************)
\* Lines 61-63
Usage ==
  /\ pc = "main"
  /\ MissingArg(argv)
  /\ out' = Append(out, OutLine("usage", <<>>, 0, 0, 0))
  /\ exit_status' = 1
  /\ pc' = "exit"
  /\ UNCHANGED <<argv, fs, opened, ParseVars, ReportVars, err>>

\* Lines 65-66, 6-7: sys.argv[1] is read and parse_lcov is entered.
EnterParse ==
  /\ pc = "main"
  /\ ~MissingArg(argv)
  /\ IF Len(argv) < 2
     THEN Crash("IndexError") /\ UNCHANGED <<coverage, current_file>>
     ELSE /\ pc' = "open"
          /\ coverage' = EmptyTable
          /\ current_file' = None
          /\ UNCHANGED <<err, exit_status>>
  /\ UNCHANGED <<argv, fs, opened, lines_read, ReportVars, out>>

\* Line 10, the file opens.
OpenOk ==
  /\ pc = "open"
  /\ fs = "ok"
  /\ opened' = TRUE
  /\ pc' = "parse"
  /\ UNCHANGED <<argv, fs, ParseVars, ReportVars, out, err, exit_status>>

\* Lines 10, 30-32: open raises FileNotFoundError.
OpenNotFound ==
  /\ pc = "open"
  /\ fs = "missing"
  /\ opened' = TRUE
  /\ out' = Append(out, OutLine("error", argv[2], 0, 0, 0))
  /\ exit_status' = 1
  /\ pc' = "exit"
  /\ UNCHANGED <<argv, fs, ParseVars, ReportVars, err>>

\* Line 10: open raises PermissionError, which no handler catches.
OpenDenied ==
  /\ pc = "open"
  /\ fs = "denied"
  /\ opened' = TRUE
  /\ Crash("PermissionError")
  /\ UNCHANGED <<argv, fs, ParseVars, ReportVars, out>>

(***************************************************************************)
(* parse_lcov: one iteration of the loop over the lines of the file.       *)
(***************************************************************************)
\* Lines 12-22
ReadSF ==
  /\ pc = "parse"
  /\ Len(lines_read) < MaxLines
  /\ \E raw \in InputLines :
       LET line == Strip(raw) IN
       /\ StartsWith(line, SFMarker)
       /\ lines_read' = Append(lines_read, raw)
       /\ current_file' = SourcePath(line)
       /\ coverage' = AddEntry(coverage, SourcePath(line))
  /\ UNCHANGED <<argv, fs, pc, opened, ReportVars, out, err, exit_status>>

\* Lines 12, 23-29
ReadDA ==
  /\ pc = "parse"
  /\ Len(lines_read) < MaxLines
  /\ \E raw \in InputLines :
       LET line  == Strip(raw)
           parts == Split(Drop(line, 3), ",")
       IN
       /\ ~StartsWith(line, SFMarker)
       /\ StartsWith(line, DAMarker) /\ ContextActive(current_file)
       /\ lines_read' = Append(lines_read, raw)
       /\ IF Len(parts) >= 2
          THEN IF PyInt(parts[2]).ok
               THEN /\ coverage' = CountLine(coverage, current_file,
                                             PyInt(parts[2]).val)
                    /\ UNCHANGED <<pc, err, exit_status>>
               ELSE Crash("ValueError") /\ UNCHANGED coverage
          ELSE UNCHANGED <<coverage, pc, err, exit_status>>
  /\ UNCHANGED <<argv, fs, opened, current_file, ReportVars, out>>

\* Line 12, neither branch of lines 13 and 23 is taken.
ReadOther ==
  /\ pc = "parse"
  /\ Len(lines_read) < MaxLines
  /\ \E raw \in InputLines :
       LET line == Strip(raw) IN
       /\ ~StartsWith(line, SFMarker)
       /\ ~(StartsWith(line, DAMarker) /\ ContextActive(current_file))
       /\ lines_read' = Append(lines_read, raw)
  /\ UNCHANGED <<argv, fs, pc, opened, coverage, current_file, ReportVars,
                 out, err, exit_status>>

\* Lines 11, 34, 67: the file is exhausted, the table is returned.
EndOfFile ==
  /\ pc = "parse"
  /\ pc' = "report"
  /\ UNCHANGED <<argv, fs, opened, ParseVars, ReportVars, out, err,
                 exit_status>>

(***************************************************************************)
(* print_report                                                            *)
(***************************************************************************)
\* Lines 37-43
PrintHeader ==
  /\ pc = "report"
  /\ out' = out \o <<OutLine("header", <<>>, 0, 0, 0),
                     OutLine("rule", <<>>, 0, 0, 0)>>
  /\ total_lines' = 0
  /\ total_covered' = 0
  /\ sorted_files' = Sorted(DOMAIN coverage)
  /\ idx' = 1
  /\ pc' = "rows"
  /\ UNCHANGED <<argv, fs, opened, ParseVars, err, exit_status>>

\* Lines 45-54
PrintRow ==
  /\ pc = "rows"
  /\ idx <= Len(sorted_files)
  /\ LET file    == sorted_files[idx]
         lines   == coverage[file].total
         covered == coverage[file].covered
         percent == Percent(covered, lines)
     IN IF percent.ok
        THEN /\ total_lines' = total_lines + lines
             /\ total_covered' = total_covered + covered
             /\ out' = Append(out, OutLine("row", file, lines, covered,
                                           percent.val))
             /\ idx' = idx + 1
             /\ UNCHANGED <<pc, err, exit_status>>
        ELSE /\ Crash("ZeroDivisionError")
             /\ UNCHANGED <<total_lines, total_covered, out, idx>>
  /\ UNCHANGED <<argv, fs, opened, ParseVars, sorted_files>>

\* Lines 56-58, then the interpreter exits with status 0.
PrintTotal ==
  /\ pc = "rows"
  /\ idx > Len(sorted_files)
  /\ LET total_percent == Percent(total_covered, total_lines) IN
     IF total_percent.ok
     THEN /\ out' = out \o <<OutLine("rule", <<>>, 0, 0, 0),
                             OutLine("total", <<>>, total_lines,
                                     total_covered, total_percent.val)>>
          /\ pc' = "exit"
          /\ UNCHANGED <<err, exit_status>>
     ELSE /\ Crash("ZeroDivisionError")
          /\ out' = Append(out, OutLine("rule", <<>>, 0, 0, 0))
  /\ UNCHANGED <<argv, fs, opened, ParseVars, ReportVars>>

Next ==
  \/ Usage
  \/ EnterParse
  \/ OpenOk
  \/ OpenNotFound
  \/ OpenDenied
  \/ ReadSF
  \/ ReadDA
  \/ ReadOther
  \/ EndOfFile
  \/ PrintHeader
  \/ PrintRow
  \/ PrintTotal

Spec == Init /\ [][Next]_vars

TypeOK ==
  /\ pc \in {"main", "open", "parse", "report", "rows", "exit"}
  /\ exit_status \in {0, 1}
  /\ Len(lines_read) <= MaxLines

(***************************************************************************)
(* Vocabulary of the properties, stated over the lines read so far.        *)
(***************************************************************************)
\* The command line holds the program name only.
NoArgument == Len(argv) = 1

IsSF(raw) == StartsWith(Strip(raw), SFMarker)
IsDA(raw) == ~IsSF(raw) /\ StartsWith(Strip(raw), DAMarker)
Fields(raw) == Split(Drop(Strip(raw), 3), ",")

\* A DA: line with at least two fields and an integer second field.
CountableDA(raw) ==
  IsDA(raw) /\ Len(Fields(raw)) >= 2 /\ PyInt(Fields(raw)[2]).ok
MalformedDA(raw) == IsDA(raw) /\ ~CountableDA(raw)
HitCount(raw) == PyInt(Fields(raw)[2]).val

\* Index of the most recent SF: line among the first n lines, 0 if none.
RECURSIVE LastSF(_, _)
LastSF(ls, n) ==
  IF n = 0 THEN 0 ELSE IF IsSF(ls[n]) THEN n ELSE LastSF(ls, n - 1)

\* Line i lies in a section of path k.
InSection(ls, i, k) ==
  LastSF(ls, i) > 0 /\ SourcePath(Strip(ls[LastSF(ls, i)])) = k

SectionTotal(ls, k) ==
  Cardinality({i \in 1..Len(ls) : CountableDA(ls[i]) /\ InSection(ls, i, k)})
SectionCovered(ls, k) ==
  Cardinality({i \in 1..Len(ls) :
                 CountableDA(ls[i]) /\ InSection(ls, i, k)
                 /\ HitCount(ls[i]) > 0})

LineRead == pc = "parse" /\ Len(lines_read') = Len(lines_read) + 1
NewLine == lines_read'[Len(lines_read')]

Changed == {k \in DOMAIN coverage' :
              k \notin DOMAIN coverage \/ coverage'[k] # coverage[k]}

RowIdx == {i \in 1..Len(out) : out[i].kind = "row"}
ReportShown == \E i \in 1..Len(out) :
                 out[i].kind \in {"header", "rule", "row", "total"}
ReportComplete ==
  /\ Len(out) >= 4
  /\ out[1].kind = "header"
  /\ out[Len(out)].kind = "total"
  /\ Len(out) = Cardinality(DOMAIN coverage) + 4

RECURSIVE SumTotal(_)
SumTotal(S) == IF S = {} THEN 0
               ELSE LET k == CHOOSE x \in S : TRUE
                    IN coverage[k].total + SumTotal(S \ {k})
RECURSIVE SumCovered(_)
SumCovered(S) == IF S = {} THEN 0
                 ELSE LET k == CHOOSE x \in S : TRUE
                      IN coverage[k].covered + SumCovered(S \ {k})

(***************************************************************************)
(* C1: in every state, parsing or after, every record of the table has     *)
(* 0 <= covered <= total, whatever execution counts were read.             *)
(***************************************************************************)
C1_CoveredWithinTotal ==
  \A k \in DOMAIN coverage :
    0 <= coverage[k].covered /\ coverage[k].covered <= coverage[k].total

C1_Witness ==
  /\ pc = "exit" /\ exit_status = 0
  /\ \E k \in DOMAIN coverage :
       coverage[k].total = 3 /\ coverage[k].covered = 1
  /\ \E i \in 1..Len(lines_read) :
       CountableDA(lines_read[i]) /\ HitCount(lines_read[i]) < 0
  /\ \E i \in 1..Len(lines_read) :
       CountableDA(lines_read[i]) /\ HitCount(lines_read[i]) = 0

(***************************************************************************)
(* C2: reading a malformed DA: line (fewer than two fields, or a second    *)
(* field that is not an integer) raises nothing, leaves the table as it    *)
(* was, and parsing goes on with the next line.                            *)
(***************************************************************************)
C2_MalformedSkipped ==
  [][(LineRead /\ MalformedDA(NewLine))
       => (pc' = "parse" /\ coverage' = coverage /\ err' = err)]_vars

(***************************************************************************)
(* C3: when the file cannot be opened (missing or inaccessible), the run   *)
(* ends with the error message naming the path as its only output, exit    *)
(* status 1, and nothing of the report printed.                            *)
(***************************************************************************)
C3_UnopenableReported ==
  (pc = "exit" /\ ~NoArgument /\ fs # "ok")
    => /\ out = <<OutLine("error", argv[2], 0, 0, 0)>>
       /\ exit_status = 1
       /\ ~ReportShown

(***************************************************************************)
(* C4: sections of the same normalized path accumulate into one entry:     *)
(* the entry's total and covered are the numbers of countable DA: lines    *)
(* (and of those with a positive count) over all sections of that path.    *)
(***************************************************************************)
C4_SectionsAccumulate ==
  \A k \in DOMAIN coverage :
    /\ coverage[k].total = SectionTotal(lines_read, k)
    /\ coverage[k].covered = SectionCovered(lines_read, k)

\* The same statement restricted to entries with a non-empty path.
C4_NonEmptyPathsAccumulate ==
  \A k \in DOMAIN coverage \ {<<>>} :
    /\ coverage[k].total = SectionTotal(lines_read, k)
    /\ coverage[k].covered = SectionCovered(lines_read, k)

(***************************************************************************)
(* C5: DA: lines never create entries: at every point the keys of the      *)
(* table are exactly the normalized paths of the SF: lines read so far     *)
(* (so DA: lines ahead of the first SF: line leave the table empty).       *)
(***************************************************************************)
C5_KeysAreSFPaths ==
  DOMAIN coverage =
    {SourcePath(Strip(lines_read[i])) :
       i \in {j \in 1..Len(lines_read) : IsSF(lines_read[j])}}

C5_Witness ==
  /\ Len(lines_read) >= 4
  /\ CountableDA(lines_read[1])
  /\ IsSF(lines_read[2])
  /\ CountableDA(lines_read[3])
  /\ IsSF(lines_read[4])
  /\ Cardinality(DOMAIN coverage) = 2
  /\ <<>> \in DOMAIN coverage

(***************************************************************************)
(* C6: the report has exactly one row per key of the table, the rows are   *)
(* in strictly ascending lexicographic order of path, and the TOTAL row    *)
(* comes after every file row.                                             *)
(***************************************************************************)
C6_RowsSortedOnePerKey ==
  /\ \A i, j \in RowIdx : i < j => LexLess(out[i].file, out[j].file)
  /\ \A i \in 1..Len(out) :
       out[i].kind = "total"
         => /\ \A j \in RowIdx : j < i
            /\ {out[j].file : j \in RowIdx} = DOMAIN coverage
  /\ {out[j].file : j \in RowIdx} \subseteq DOMAIN coverage
  /\ (pc = "exit" /\ exit_status = 0) => ReportComplete

C6_Witness ==
  /\ pc = "exit" /\ exit_status = 0
  /\ Cardinality(RowIdx) = 3
  /\ IsSF(lines_read[1])
  /\ \E i \in RowIdx :
       LexLess(out[i].file, SourcePath(Strip(lines_read[1])))
  /\ \E i \in RowIdx :
       LexLess(SourcePath(Strip(lines_read[1])), out[i].file)

(***************************************************************************)
(* C7: the TOTAL row carries the sums of total and covered over the table; *)
(* every row, and the TOTAL row, shows 0 percent when its line count is 0  *)
(* (the empty table gives TOTAL 0, 0, 0.00%); no division by zero occurs.  *)
(***************************************************************************)
C7_TotalsAndZeroGuard ==
  /\ \A i \in 1..Len(out) :
       (out[i].kind \in {"row", "total"} /\ out[i].lines = 0)
         => out[i].percent = 0
  /\ \A i \in 1..Len(out) :
       out[i].kind = "total"
         => /\ out[i].lines = SumTotal(DOMAIN coverage)
            /\ out[i].covered = SumCovered(DOMAIN coverage)
  /\ \A i \in 1..Len(err) : err[i] # "ZeroDivisionError"
  /\ (pc = "exit" /\ exit_status = 0 /\ coverage = EmptyTable)
       => out[Len(out)] = OutLine("total", <<>>, 0, 0, 0)
  /\ (pc = "exit" /\ exit_status = 0) => ReportComplete

C7_Witness ==
  /\ pc = "exit" /\ exit_status = 0
  /\ \E i \in RowIdx : out[i].lines = 0 /\ out[i].percent = 0
  /\ \E i \in RowIdx : out[i].lines = 2 /\ out[i].covered = 1
  /\ out[Len(out)].kind = "total" /\ out[Len(out)].lines = 2
  /\ out[Len(out)].percent = 5000

(***************************************************************************)
(* C8: without an argument the run prints the usage text, exits with       *)
(* status 1, opens no file and prints no table; with a path to a file that *)
(* opens and holds only well-formed lines it prints the table and exits    *)
(* with status 0.                                                          *)
(***************************************************************************)
C8_UsageAndSuccess ==
  /\ NoArgument => (~opened /\ ~ReportShown)
  /\ (pc = "exit" /\ NoArgument)
       => (out = <<OutLine("usage", <<>>, 0, 0, 0)>> /\ exit_status = 1)
  /\ (pc = "exit" /\ ~NoArgument /\ fs = "ok"
        /\ \A i \in 1..Len(lines_read) : ~MalformedDA(lines_read[i]))
       => (exit_status = 0 /\ err = <<>> /\ ReportComplete)

C8_Witness ==
  /\ pc = "exit" /\ ~NoArgument /\ fs = "ok"
  /\ exit_status = 0
  /\ Len(lines_read) = 3
  /\ \E i \in RowIdx : out[i].lines > 0

(***************************************************************************)
(* C9: once an SF: line has been read, whatever its path (an empty one     *)
(* too), every countable DA: line read afterwards adds exactly 1 to the    *)
(* total of the most recent SF: path's entry, and exactly 1 to its covered *)
(* when and only when the execution count is positive.                     *)
(***************************************************************************)
C9_CountedAfterAnySF ==
  [][(LineRead /\ CountableDA(NewLine)
        /\ LastSF(lines_read, Len(lines_read)) > 0)
       => LET k == SourcePath(Strip(
                     lines_read[LastSF(lines_read, Len(lines_read))]))
          IN /\ coverage'[k].total = coverage[k].total + 1
             /\ coverage'[k].covered =
                  coverage[k].covered
                    + (IF HitCount(NewLine) > 0 THEN 1 ELSE 0)]_vars

\* The same statement for a non-empty most recent path.
C9_CountedAfterNonEmptySF ==
  [][(LineRead /\ CountableDA(NewLine)
        /\ LastSF(lines_read, Len(lines_read)) > 0
        /\ SourcePath(Strip(
             lines_read[LastSF(lines_read, Len(lines_read))])) # <<>>)
       => LET k == SourcePath(Strip(
                     lines_read[LastSF(lines_read, Len(lines_read))]))
          IN /\ coverage'[k].total = coverage[k].total + 1
             /\ coverage'[k].covered =
                  coverage[k].covered
                    + (IF HitCount(NewLine) > 0 THEN 1 ELSE 0)]_vars

(***************************************************************************)
(* C10: frame.  One line changes at most one record: a DA: line only the   *)
(* current file's, an SF: line no existing record and at most one new      *)
(* zero entry, any other line neither the table nor the current file.      *)
(* Counts never decrease, keys are never removed, and print_report leaves  *)
(* the table as it is.                                                     *)
(***************************************************************************)
C10_Frame ==
  [][/\ DOMAIN coverage \subseteq DOMAIN coverage'
     /\ \A k \in DOMAIN coverage :
          /\ coverage'[k].total >= coverage[k].total
          /\ coverage'[k].covered >= coverage[k].covered
     /\ Cardinality(Changed) <= 1
     /\ (LineRead /\ IsDA(NewLine)) => Changed \subseteq {current_file}
     /\ (LineRead /\ IsSF(NewLine))
          => /\ \A k \in DOMAIN coverage : coverage'[k] = coverage[k]
             /\ \A k \in Changed :
                  coverage'[k] = [total |-> 0, covered |-> 0]
     /\ (LineRead /\ ~IsSF(NewLine) /\ ~IsDA(NewLine))
          => (coverage' = coverage /\ current_file' = current_file)
     /\ pc \in {"report", "rows", "exit"} => coverage' = coverage]_vars

C10_Witness ==
  /\ pc = "exit" /\ exit_status = 0
  /\ Len(lines_read) = 4
  /\ IsSF(lines_read[1])
  /\ ~IsSF(lines_read[2]) /\ ~IsDA(lines_read[2])
  /\ CountableDA(lines_read[3])
  /\ IsSF(lines_read[4])
  /\ SourcePath(Strip(lines_read[4])) = SourcePath(Strip(lines_read[1]))
  /\ lines_read[4] # lines_read[1]
  /\ coverage[SourcePath(Strip(lines_read[1]))].total = 1
====
